---- MODULE Spec2Model ----
(***************************************************************************)
(* State-machine model of skrf.vectorFitting.VectorFitting                 *)
(* (src/skrf/vectorFitting.py).                                            *)
(*                                                                         *)
(* Numbers.  Floating-point quantities are kept as scaled integers:        *)
(*   - normalised frequencies in units of 1/FreqUnit (0.1 is               *)
(*     ZeroFreqOffset),                                                    *)
(*   - poles in units of 2*pi/(FreqUnit*CmplxPoleQ), so that the real      *)
(*     starting pole -omega is -CmplxPoleQ*f and the complex starting pole *)
(*     (-0.01+1j)*omega is (-f, CmplxPoleQ*f),                             *)
(*   - d_res in units of 1e-9 (tol_res = 1e-8 is 10),                      *)
(*   - delta_max and max_tol in units of 1e-6.                             *)
(* The IEEE value nan is the reserved integer NaN.                          *)
(*                                                                         *)
(* The dense numeric primitives (lstsq, eigvals, svd, cond) are oracles:   *)
(* their outputs are drawn from small sets, and everything the Python code *)
(* does with those outputs is modelled as written.                         *)
(***************************************************************************)
EXTENDS Integers, Sequences, FiniteSets, TLC

VARIABLES
    network,             \* self.network: None or a network record
    max_iterations,      \* self.max_iterations
    max_tol,             \* self.max_tol
    poles,               \* self.poles
    residues,            \* self.residues
    proportional_coeff,  \* self.proportional_coeff
    constant_coeff,      \* self.constant_coeff
    behaviour,           \* what eigvals, svd and the sweep find for the stored model
    d_res_history,       \* self.d_res_history
    delta_max_history,   \* self.delta_max_history
    history_cond_A,      \* self.history_cond_A
    history_max_sigma,   \* self.history_max_sigma
    pc,                  \* position of the (single) thread of control
    frame,               \* local variables of the call in progress / last call
    result,              \* outcome of the call in progress / last call
    warns                \* warnings issued by the call in progress / last call

vars == <<network, max_iterations, max_tol, poles, residues, proportional_coeff,
          constant_coeff, behaviour, d_res_history, delta_max_history,
          history_cond_A, history_max_sigma, pc, frame, result, warns>>

fields == <<poles, residues, proportional_coeff, constant_coeff>>

\* the stored model: its arrays and what the numerical routines find for them
model == <<fields, behaviour>>

histories == <<d_res_history, delta_max_history, history_cond_A, history_max_sigma>>

settings == <<network, max_iterations, max_tol>>

----------------------------------------------------------------------------
(* Values *)

\* An optional value is a sequence of length at most one: None is the empty
\* one, Some(x) holds x.
None == <<>>

Some(x) == <<x>>

Get(o) == o[1]

\* the IEEE value nan, kept off the integer grid of the numbers
NaN == -(10 ^ 9)

\* Bounds of the exploration.
MaxIter == 3

MaxPolesReal == 1

MaxPolesCmplx == 1

MaxIterAllArgs == 1

\* Program constants, in the units given in the header.
ZeroFreqOffset == 2

CmplxPoleQ == 100

tol_res == 10

DefaultMaxTol == 1

InitialMaxSingular == 1

FreqUnit == 10 * ZeroFreqOffset

DeltaUnit == 10 ^ 6

Abs(x) == IF x < 0 THEN -x ELSE x

RECURSIVE SeqSum(_)
SeqSum(s) == IF s = <<>> THEN 0 ELSE Head(s) + SeqSum(Tail(s))

SeqMin(s) == CHOOSE x \in {s[i] : i \in 1..Len(s)} : \A j \in 1..Len(s) : x <= s[j]

SeqMax(s) == CHOOSE x \in {s[i] : i \in 1..Len(s)} : \A j \in 1..Len(s) : x >= s[j]

\* The sampled networks: the sample frequencies f (ascending) and the port
\* count.  One network starts at dc, the other does not.
\* s_max is the largest singular value of the sampled scattering data, in
\* units of 1/1000.
Networks ==
    { [f |-> <<0, 2>>, nports |-> 1, s_max |-> 900],
      [f |-> <<1, 3>>, nports |-> 2, s_max |-> 1100] }

\* a one-dimensional ndarray and a two-dimensional one (row-major data)
Array1(seq) == [shape |-> <<Len(seq)>>, data |-> seq]

Array2(rows, cols, seq) == [shape |-> <<rows, cols>>, data |-> seq]

\* len(a)
NpLen(a) == a.shape[1]

Warning(cat, msg) == [category |-> cat, msg |-> msg]

NoFrame == [op |-> "none"]

NoResult == [op |-> "none", status |-> "none", value |-> <<>>]

----------------------------------------------------------------------------
(* vector_fit: starting poles *)

\* norm = np.average(self.network.f)
Norm(net) == SeqSum(net.f) \div Len(net.f)

\* freqs_norm = np.array(self.network.f) / norm
FreqsNorm(net) == [i \in 1..Len(net.f) |-> (net.f[i] * FreqUnit) \div Norm(net)]

\* np.linspace(a, b, n)
Linspace(a, b, n) ==
    [i \in 1..n |-> IF n = 1 THEN a ELSE a + ((i - 1) * (b - a)) \div (n - 1)]

\* np.geomspace(a, b, n), rounded down to the integer grid
Geomspace(a, b, n) ==
    [i \in 1..n |->
        IF i = 1 THEN a
        ELSE IF i = n THEN b
        ELSE CHOOSE g \in a..b :
                /\ g ^ (n - 1) <= (a ^ (n - i)) * (b ^ (i - 1))
                /\ (g + 1) ^ (n - 1) > (a ^ (n - i)) * (b ^ (i - 1))]

\* pole_freqs_real / pole_freqs_cmplx for n poles
PoleFreqs(spacing, fmin, fmax, n) ==
    IF spacing = "log" /\ fmin = 0 THEN Geomspace(fmin + ZeroFreqOffset, fmax, n)
    ELSE IF spacing = "log" THEN Geomspace(fmin, fmax, n)
    ELSE IF spacing = "lin" /\ fmin = 0 THEN Linspace(fmin + ZeroFreqOffset, fmax, n)
    ELSE IF spacing = "lin" THEN Linspace(fmin, fmax, n)
    ELSE Linspace(fmin, fmax, n)

\* the warning of the else branch
SpacingWarnings(spacing) ==
    IF spacing \in {"log", "lin"} THEN {}
    ELSE {Warning("UserWarning", "invalid pole spacing; proceeding with linear spacing")}

\* poles[i] = -1 * omega
RealStartPole(f) == [re |-> -(CmplxPoleQ * f), im |-> 0]

\* poles[i_offset + i] = (-0.01 + 1j) * omega
CmplxStartPole(f) == [re |-> -f, im |-> CmplxPoleQ * f]

StartingPoles(spacing, net, n_poles_real, n_poles_cmplx) ==
    LET fn   == FreqsNorm(net)
        fmin == SeqMin(fn)
        fmax == SeqMax(fn)
        fr   == PoleFreqs(spacing, fmin, fmax, n_poles_real)
        fc   == PoleFreqs(spacing, fmin, fmax, n_poles_cmplx)
    IN  [i \in 1..n_poles_real |-> RealStartPole(fr[i])]
        \o [i \in 1..n_poles_cmplx |-> CmplxStartPole(fc[i])]

\* str.lower() on the selectors used here
Lower(t) ==
    CASE t = "S" -> "s"
      [] t = "Z" -> "z"
      [] t = "Y" -> "y"
      [] t = "R" -> "r"
      [] t = "Q" -> "q"
      [] OTHER -> t

\* select network representation type (vector_fit)
FitResponses(parameter_type) ==
    IF Lower(parameter_type) = "s" THEN "s"
    ELSE IF Lower(parameter_type) = "z" THEN "z"
    ELSE IF Lower(parameter_type) = "y" THEN "y"
    ELSE "s"

FitTypeWarnings(parameter_type) ==
    IF Lower(parameter_type) \in {"s", "z", "y"} THEN {}
    ELSE {Warning("UserWarning", "invalid parameter type; proceeding with scattering")}

----------------------------------------------------------------------------
(* vector_fit: one pole-relocation iteration *)

\* n_cols_unused = np.sum((poles.imag != 0) + 1), before the constant and
\* proportional columns are counted; also len(c_res)
RECURSIVE NCols(_)
NCols(ps) ==
    IF ps = <<>> THEN 0
    ELSE (IF Head(ps).im # 0 THEN 2 ELSE 1) + NCols(Tail(ps))

\* 1 / (s - p) divides by zero when a pole lies on a sample s = j*omega
OnSample(ps, net) ==
    \E k \in 1..Len(ps) : \E i \in 1..Len(net.f) :
        /\ ps[k].re = 0
        /\ ps[k].im = CmplxPoleQ * FreqsNorm(net)[i]

\* oracle: the solution x[-1] of np.linalg.lstsq(A_fast, b)
DResSolutions == {-5, 0, 20}

\* oracle: np.amax(singular_vals) of that solve
SingularVals == {1, 2}

\* oracle: np.linalg.cond(A_fast) of a finite matrix
CondFinite == 10 ^ 2

\* oracle: eigenvalues of the real matrix H.  They come closed under
\* conjugation and in any order.  The drawn values are marginal (real part 0)
\* or unstable (real part > 0), so that the flip of the real part acts; a
\* stable eigenvalue gives the relocated pole of its unstable mirror image.
EigVals ==
    { [re |-> 0, im |-> 0], [re |-> 100, im |-> 0],
      [re |-> 100, im |-> 100], [re |-> 100, im |-> -100] }

Conj(v) == [re |-> v.re, im |-> -(v.im)]

Count(e, v) == Cardinality({i \in DOMAIN e : e[i] = v})

\* the largest test matrix: one column per real and two per complex pole
MaxCols == MaxPolesReal + 2 * MaxPolesCmplx

EigTable ==
    [n \in 0..MaxCols |->
        {e \in [1..n -> EigVals] : \A v \in EigVals : Count(e, v) = Count(e, Conj(v))}]

EigOutcomes(n) == EigTable[n]

\* d_res = tol_res * (d_res / np.abs(d_res)) when np.abs(d_res) < tol_res
ClampDRes(d) ==
    IF Abs(d) < tol_res
    THEN (IF d = 0 THEN NaN ELSE tol_res * (d \div Abs(d)))
    ELSE d

DResWarnings(d) ==
    IF Abs(d) < tol_res
    THEN {Warning("RuntimeWarning", "replacing d_res solution as it was too small")}
    ELSE {}

NonNegImag(v) == v.im >= 0

\* poles.real = -1 * np.abs(poles.real)
FlipReal(v) == [re |-> -Abs(v.re), im |-> v.im]

\* poles = poles_new[np.nonzero(poles_new.imag >= 0)], then the flip
RelocatedPoles(eig) ==
    LET kept == SelectSeq(eig, NonNegImag)
    IN  [i \in 1..Len(kept) |-> FlipReal(kept[i])]

\* delta_max = np.abs(1 - new_max_singular / max_singular)
DeltaMax(new_max_singular, max_singular) ==
    (Abs(max_singular - new_max_singular) * DeltaUnit) \div max_singular

\* a stop on the first delta below the tolerance, without the pending flag
StopOnFirstBelow(delta_max, tol, converged) == delta_max < tol

\* stop = True
StopNow(delta_max, tol, converged) == delta_max < tol /\ converged

\* the 'converged' flag after the if/else on delta_max
NextConverged(delta_max, tol, converged) ==
    IF delta_max < tol
    THEN (IF converged THEN converged ELSE TRUE)
    ELSE (IF converged THEN FALSE ELSE converged)

\* a loop condition that admits one more pass
RelocationGuardInclusive(iterations) == iterations >= 0

\* while iterations > 0
RelocationGuard(iterations) == iterations > 0

\* the warnings of the 'if iterations == 0' block
BudgetWarnings(iterations, converged, stop) ==
    IF iterations = 0
    THEN IF converged /\ stop = FALSE
         THEN {Warning("RuntimeWarning", "barely converged; took the max. number of iterations")}
         ELSE {Warning("RuntimeWarning", "did not converge; reached the max. number of iterations")}
    ELSE {}

Raised(op, exc) == [op |-> op, status |-> exc, value |-> <<>>]

Running(op) == [op |-> op, status |-> "running", value |-> <<>>]

Returned(op) == [op |-> op, status |-> "returned", value |-> <<>>]

ReturnedValue(op, v) == [op |-> op, status |-> "returned", value |-> v]

----------------------------------------------------------------------------
(* vector_fit: the actions *)

SpacingArgs == {"lin", "log", "linear"}

FitTypeArgs == {"s", "Z", "q"}

\* vector_fit, from entry to the stacked and weighted frequency responses
VectorFitStart(n_poles_real, n_poles_cmplx, init_pole_spacing, parameter_type, fit_constant, fit_proportional) ==
    /\ pc = "idle"
    /\ UNCHANGED <<settings, model, histories>>
    /\ IF network = None
       THEN \* np.average(self.network.f) on None
            /\ pc' = "idle"
            /\ frame' = NoFrame
            /\ result' = Raised("vector_fit", "AttributeError")
            /\ warns' = {}
       ELSE /\ pc' = "vf_init"
            /\ frame' = [op |-> "vector_fit",
                         n_poles_real |-> n_poles_real,
                         n_poles_cmplx |-> n_poles_cmplx,
                         init_pole_spacing |-> init_pole_spacing,
                         parameter_type |-> parameter_type,
                         fit_constant |-> fit_constant,
                         fit_proportional |-> fit_proportional,
                         poles |-> StartingPoles(init_pole_spacing, Get(network),
                                                 n_poles_real, n_poles_cmplx),
                         max_singular |-> InitialMaxSingular,
                         nw_responses |-> FitResponses(parameter_type)]
            /\ result' = Running("vector_fit")
            /\ warns' = SpacingWarnings(init_pole_spacing)
                            \cup FitTypeWarnings(parameter_type)

\* vector_fit, set-up of the iteration: the histories are emptied and the
\* budget is read.  Only the locals that are still read are kept.
VectorFitEnterLoop ==
    /\ pc = "vf_init"
    /\ pc' = "vf_loop"
    /\ frame' = [op |-> "vector_fit",
                 fit_constant |-> frame.fit_constant,
                 fit_proportional |-> frame.fit_proportional,
                 poles |-> frame.poles,
                 max_singular |-> frame.max_singular,
                 iterations |-> max_iterations,
                 converged |-> FALSE,
                 stop |-> FALSE]
    /\ d_res_history' = <<>>
    /\ delta_max_history' = <<>>
    /\ history_cond_A' = <<>>
    /\ UNCHANGED <<settings, model, history_max_sigma, result, warns>>

\* one pass of 'while iterations > 0' whose coefficient matrix has inf/nan
\* entries: the LAPACK-backed calls either raise LinAlgError or hand nan on,
\* and np.linalg.eigvals rejects a matrix that is not finite
IterateOnSample ==
    \E stage \in {"cond", "lstsq", "eigvals"} :
        /\ history_cond_A' = IF stage = "cond" THEN history_cond_A
                             ELSE Append(history_cond_A, NaN)
        /\ d_res_history' = IF stage = "eigvals" THEN Append(d_res_history, NaN)
                            ELSE d_res_history
        /\ pc' = "idle"
        /\ result' = Raised("vector_fit", "LinAlgError")
        /\ UNCHANGED <<settings, model, delta_max_history, history_max_sigma, frame, warns>>

\* one pass of 'while iterations > 0' on a finite coefficient matrix
IterateFinite ==
    \E d \in DResSolutions, new_max_singular \in SingularVals,
       poles_new \in EigOutcomes(NCols(frame.poles)) :
        LET d_res      == ClampDRes(d)
            delta_max  == DeltaMax(new_max_singular, frame.max_singular)
            stop       == StopNow(delta_max, max_tol, frame.converged)
            converged  == NextConverged(delta_max, max_tol, frame.converged)
            iterations == frame.iterations - 1
        IN  /\ history_cond_A' = Append(history_cond_A, CondFinite)
            /\ d_res_history' = Append(d_res_history, d_res)
            /\ IF d_res = NaN
               THEN \* H is not finite: np.linalg.eigvals raises
                    /\ pc' = "idle"
                    /\ result' = Raised("vector_fit", "LinAlgError")
                    /\ warns' = warns \cup DResWarnings(d)
                    /\ UNCHANGED <<delta_max_history, frame>>
               ELSE /\ pc' = "vf_loop"
                    /\ delta_max_history' = Append(delta_max_history, delta_max)
                    /\ frame' = [frame EXCEPT
                                    !.poles = RelocatedPoles(poles_new),
                                    !.max_singular = new_max_singular,
                                    !.converged = converged,
                                    !.stop = stop,
                                    !.iterations = IF stop THEN 0 ELSE iterations]
                    /\ warns' = warns \cup DResWarnings(d)
                                      \cup BudgetWarnings(iterations, converged, stop)
                    /\ UNCHANGED result
            /\ UNCHANGED <<settings, model, history_max_sigma>>

VectorFitIterate ==
    /\ pc = "vf_loop"
    /\ RelocationGuard(frame.iterations)
    /\ IF OnSample(frame.poles, Get(network)) THEN IterateOnSample ELSE IterateFinite

----------------------------------------------------------------------------
(* vector_fit: residues, constants, proportional terms *)

IsRealPole(v) == v.im = 0

IsCmplxPole(v) == v.im # 0

\* poles = np.concatenate((poles[idx_poles_real], poles[idx_poles_complex]))
AlignPoles(ps) == SelectSeq(ps, IsRealPole) \o SelectSeq(ps, IsCmplxPole)

\* poles * norm
Denormalize(ps, norm) == [i \in 1..Len(ps) |-> [re |-> ps[i].re * norm, im |-> ps[i].im * norm]]

\* the value 1.0 of a coefficient: the least common multiple of the norms, so
\* that the division by norm stays on the integer grid
CoeffUnit ==
    CHOOSE u \in 1..4 :
        /\ \A net \in Networks : u % Norm(net) = 0
        /\ \A v \in 1..(u - 1) : \E net \in Networks : v % Norm(net) # 0

\* oracle: entries of the least-squares solution x of the residue solve
LstsqVals == {0, CoeffUnit}

Times(x, k) == IF x = NaN THEN NaN ELSE x * k

Over(x, k) == IF x = NaN THEN NaN ELSE x \div k

\* residues, transposed to [response, pole]; every entry of x is the drawn value
FittedResidues(n_responses, n_poles, x, norm) ==
    [r \in 1..n_responses |-> [k \in 1..n_poles |-> Times(x, norm)]]

\* constants that keep a single value instead of one per response
FittedConstantSingle(n_responses, fit_constant, x) ==
    Array1(<<IF fit_constant THEN x ELSE 0>>)

\* constant_coeff = x[idx_constant][0] or np.zeros(n_responses)
FittedConstant(n_responses, fit_constant, x) ==
    Array1([r \in 1..n_responses |-> IF fit_constant THEN x ELSE 0])

\* proportional_coeff = x[idx_proportional][0] or np.zeros(n_responses), / norm
FittedProportional(n_responses, fit_proportional, x, norm) ==
    Array1([r \in 1..n_responses |-> IF fit_proportional THEN Over(x, norm) ELSE 0])

----------------------------------------------------------------------------
(* The band computations of passivity_test *)

\* the value np.inf of f_stop
Unbounded == 10 ^ 8

Band(f_start, f_stop) == [f_start |-> f_start, f_stop |-> f_stop]

\* np.sort
RECURSIVE NpSort(_)
NpSort(s) ==
    IF s = <<>> THEN <<>>
    ELSE LET m    == SeqMin(s)
             at   == CHOOSE i \in 1..Len(s) : s[i] = m
             rest == [i \in 1..(Len(s) - 1) |-> IF i < at THEN s[i] ELSE s[i + 1]]
         IN  <<m>> \o NpSort(rest)

\* The frequency unit of the crossover frequencies: 0.5 * (f_start + f_stop)
\* and 1.1 * f_start of multiples of this unit are whole numbers.
CrossoverUnit == 2 * 10

\* What the eigenvalue and singular value routines find for the stored model.
\*   crossover:   imag(sqrt(P_eigs)) / 2 / pi of the square roots whose real
\*                part is 0.0, in the order of np.linalg.eigvals
\*   sigma_hot:   the frequencies at which a singular value of the model
\*                response is above 1
\*   wS1:         the real entries of wS1 of _passivity_test_y, as computed
\*   G_neg:       the angular frequencies at which G has a negative eigenvalue
\*   non_passive: np.where(S >= 1.0)[0] of _passivity_test_r, one index for
\*                every entry of S at or above 1 (ascending)
ModelBehaviour(crossover, sigma_hot, wS1, G_neg, non_passive) ==
    [crossover |-> crossover, sigma_hot |-> sigma_hot, wS1 |-> wS1, G_neg |-> G_neg,
     non_passive |-> non_passive]

\* a model without any violation
PassiveBehaviour == ModelBehaviour(<<>>, {}, <<>>, {}, <<>>)

\* the crossover frequencies with dc, in the order of the eigenvalues
FreqsViolationUnsorted(crossover) ==
    IF \E i \in DOMAIN crossover : crossover[i] = 0 THEN crossover ELSE Append(crossover, 0)

\* freqs_violation: the crossover frequencies, dc included, sorted
FreqsViolation(crossover) ==
    NpSort(IF \E i \in DOMAIN crossover : crossover[i] = 0 THEN crossover
           ELSE Append(crossover, 0))

\* f_start, f_stop and f_center of the band that starts at freqs_violation[i]
FStart(fv, i) == fv[i]

FStop(fv, i) == IF i = Len(fv) THEN Unbounded ELSE fv[i + 1]

FCenter(fv, i) == IF i = Len(fv) THEN (11 * fv[i]) \div 10 ELSE (fv[i] + fv[i + 1]) \div 2

\* the bands from freqs_violation[i] on whose centre has a singular value > 1
RECURSIVE ViolationBands(_, _, _)
ViolationBands(fv, sigma_hot, i) ==
    IF i > Len(fv) THEN <<>>
    ELSE (IF FCenter(fv, i) \in sigma_hot THEN <<Band(FStart(fv, i), FStop(fv, i))>>
          ELSE <<>>) \o ViolationBands(fv, sigma_hot, i + 1)

\* passivity_test("s") after _get_ABCDE
PassivityTestS(b) ==
    ViolationBands(FreqsViolation(b.crossover), b.sigma_hot, 1)

\* the value 1e16 of an interval without upper end
E16 == 10 ^ 7

\* mid_w: half of the first, twice the last, and the middle of two neighbours
MidW(sing_w) ==
    [k \in 1..(Len(sing_w) + 1) |->
        IF k = 1 THEN sing_w[1] \div 2
        ELSE IF k = Len(sing_w) + 1 THEN 2 * sing_w[Len(sing_w)]
        ELSE (sing_w[k - 1] + sing_w[k]) \div 2]

\* the rows of 'intervals' from mid_w[k] on, one for every violating midpoint
RECURSIVE ViolIntervals(_, _, _, _)
ViolIntervals(sing_w, mid_w, G_neg, k) ==
    IF k > Len(mid_w) THEN <<>>
    ELSE (IF mid_w[k] \notin G_neg THEN <<>>
          ELSE IF k = 1 THEN <<Band(0, sing_w[1])>>
          ELSE IF k = Len(mid_w) THEN <<Band(sing_w[k - 1], E16)>>
          ELSE <<Band(sing_w[k - 1], sing_w[k])>>)
         \o ViolIntervals(sing_w, mid_w, G_neg, k + 1)

\* the loop over range(1, len(intervals)): rows k-1 and k (counted from 1
\* here) are joined when their second columns are equal
RECURSIVE MergeIntervals(_, _, _)
MergeIntervals(intervals, killindex, k) ==
    IF k > Len(intervals) THEN [intervals |-> intervals, killindex |-> killindex]
    ELSE IF intervals[k - 1].f_stop = intervals[k].f_stop
    THEN MergeIntervals([intervals EXCEPT ![k] = intervals[k - 1]],
                        killindex \cup {k - 1}, k + 1)
    ELSE MergeIntervals(intervals, killindex, k + 1)

\* np.delete(rows, killindex, axis=0), from row k on
RECURSIVE NpDelete(_, _, _)
NpDelete(rows, killindex, k) ==
    IF k > Len(rows) THEN <<>>
    ELSE (IF k \in killindex THEN <<>> ELSE <<rows[k]>>) \o NpDelete(rows, killindex, k + 1)

\* _passivity_test_y after the state-space model has been built
PassivityTestY(b) ==
    LET sing_w == NpSort(b.wS1)
    IN  IF Len(sing_w) = 0 THEN <<>>
        ELSE LET merged == MergeIntervals(
                               ViolIntervals(sing_w, MidW(sing_w), b.G_neg, 1),
                               {}, 2)
             IN  NpDelete(merged.intervals, merged.killindex, 1)

\* the number of samples of the sweep of _passivity_test_r (1 + 99999 there)
SweepLen == 12

\* freqtest: 0.0 in front of np.linspace(0.1, np.max(freq) * 1.6, ...), in
\* tenths of the frequency unit of the network
Freqtest(net) == <<0>> \o Linspace(1, 16 * SeqMax(net.f), SweepLen - 1)

\* 2 * np.pi * f, in a unit of which 7/8 and 9/8 are whole numbers
Angular(f) == 8 * f

\* a frequency that is used as an angular frequency without the factor 2 pi,
\* in the unit of Angular
NotConverted(f) == (400 * f) \div 314

\* the index of the last entry of the run of consecutive indices that starts
\* at violations[i] (the inner while loop)
RECURSIVE RunEnd(_, _)
RunEnd(violations, i) ==
    IF i < Len(violations) /\ violations[i] + 1 = violations[i + 1]
    THEN RunEnd(violations, i + 1)
    ELSE i

\* _find_limits_of_violation, from violations[i] on
RECURSIVE FindLimitsOfViolation(_, _)
FindLimitsOfViolation(violations, i) ==
    IF i > Len(violations) THEN <<>>
    ELSE <<[min_index |-> violations[i], max_index |-> violations[RunEnd(violations, i)]]>>
         \o FindLimitsOfViolation(violations, RunEnd(violations, i) + 1)

\* the row of freq_intervals of one interval of sample indices
FreqInterval(freqtest, interval) ==
    LET min_freq == Angular(freqtest[interval.min_index + 1])
        max_freq == Angular(freqtest[interval.max_index + 1])
    IN  IF min_freq = max_freq
        THEN IF max_freq = Angular(SeqMax(freqtest)) THEN Band(min_freq, E16)
             ELSE IF max_freq = Angular(SeqMin(freqtest))
             THEN Band(min_freq, NotConverted(freqtest[interval.max_index + 2]))
             ELSE Band((7 * min_freq) \div 8, (9 * max_freq) \div 8)
        ELSE IF max_freq = Angular(SeqMax(freqtest)) THEN Band(min_freq, E16)
        ELSE Band(min_freq, max_freq)

\* _passivity_test_r after the sweep
PassivityTestR(b, net) ==
    IF Len(b.non_passive) = 0 THEN <<>>
    ELSE LET interval_indices == FindLimitsOfViolation(b.non_passive, 1)
         IN  [i \in 1..Len(interval_indices) |->
                 FreqInterval(Freqtest(net), interval_indices[i])]

\* The behaviours that a model of n_ports ports is given when it is written.
\* A sample of the sweep is counted twice by np.where only when S has more
\* than one entry.
Behaviours(n_ports) ==
    LET f1 == CrossoverUnit
        f2 == 2 * CrossoverUnit
    IN  { PassiveBehaviour,
          ModelBehaviour(<<f2, f1>>, {(f1 + f2) \div 2}, <<f2, f1>>, {f1 \div 2, (f1 + f2) \div 2},
                         <<SweepLen - 4, SweepLen - 2>>),
          ModelBehaviour(<<f1>>, {(11 * f1) \div 10}, <<f1>>, {2 * f1},
                         <<SweepLen - 2, SweepLen - 1>>),
          ModelBehaviour(<<>>, {0}, <<>>, {}, <<0>>) }
        \cup (IF n_ports > 1 THEN {ModelBehaviour(<<>>, {0}, <<>>, {}, <<0, 0>>)} ELSE {})

\* the behaviours of a fitted model: without violation, and with one band
FittedBehaviours ==
    {b \in Behaviours(1) : b.crossover \in {<<>>, <<2 * CrossoverUnit, CrossoverUnit>>} /\ b.non_passive # <<0>>}

\* the determinant of D + shift * I for one and for two ports
ShiftedDet(D, shift) ==
    IF Len(D) = 1 THEN D[1] + shift
    ELSE IF Len(D) = 4 THEN (D[1] + shift) * (D[4] + shift) - D[2] * D[3]
    ELSE 1

\* np.linalg.inv(D - I) or np.linalg.inv(D + I) raises: the matrix is singular
SingularD(cc) ==
    \/ ShiftedDet(cc.data, -CoeffUnit) = 0
    \/ ShiftedDet(cc.data, CoeffUnit) = 0

\* the largest number of crossover frequencies, and of violating samples of
\* the sweep, of the behaviours below
MaxCrossovers == 2

MaxViolations == 2

\* the sequences of up to n elements of S
SeqsUpTo(S, n) == UNION {[1..k -> S] : k \in 0..n}

\* the ascending sequences of up to n sample indices of the sweep, and for
\* more than one port those that name a sample twice
SampleSeqs(n, n_ports) ==
    {q \in SeqsUpTo(0..(SweepLen - 1), n) :
        \A i \in 1..(Len(q) - 1) : q[i] < q[i + 1] \/ (n_ports > 1 /\ q[i] = q[i + 1])}

\* Every behaviour with up to MaxCrossovers crossover frequencies and any
\* classification of the band centres, with up to MaxCrossovers real entries
\* of wS1 and any classification of the midpoints, or with up to
\* MaxViolations violating samples of the sweep.
TestBehaviours(n_ports) ==
    LET freqs == {CrossoverUnit, 2 * CrossoverUnit}
    IN  {ModelBehaviour(c, {FCenter(FreqsViolation(c), i) : i \in hot \cap (1..Len(FreqsViolation(c)))}, <<>>, {}, <<>>) :
            c \in SeqsUpTo(freqs \cup {0}, MaxCrossovers), hot \in SUBSET (1..(MaxCrossovers + 1))}
        \cup {ModelBehaviour(<<>>, {}, w, {MidW(NpSort(w))[k] : k \in neg \cap (1..(Len(w) + 1))}, <<>>) :
                 w \in SeqsUpTo(freqs, MaxCrossovers) \ {<<>>}, neg \in SUBSET (1..(MaxCrossovers + 1))}
        \cup {ModelBehaviour(<<>>, {}, <<>>, {}, q) : q \in SampleSeqs(MaxViolations, n_ports)}

AllBehaviours == Behaviours(2) \cup TestBehaviours(2)

\* the bands of the scattering and of the admittance route, and of the
\* reflection route for every network, for every behaviour
BandTable ==
    [route \in {"s", "y"} |->
        [b \in AllBehaviours |-> IF route = "y" THEN PassivityTestY(b) ELSE PassivityTestS(b)]]

SweepTable == [net \in Networks |-> [b \in AllBehaviours |-> PassivityTestR(b, net)]]

----------------------------------------------------------------------------
(* vector_fit: the end of the call *)

PassivityWarning ==
    Warning("UserWarning", "the fitted network is passive, but the vector fit is not passive")

\* self.network.is_passive(): no singular value of the sampled data above 1
NetworkIsPassive(net) == net.s_max <= 1000

\* the statements after 'ITERATIONS DONE', given the outcome of the solve (the
\* value of the entries of x) and the behaviour b of the fitted model
FinishWith(x, rv, b) ==
    LET ps          == AlignPoles(frame.poles)
        norm        == Norm(Get(network))
        n_responses == Get(network).nports * Get(network).nports
        D           == FittedConstant(n_responses, frame.fit_constant, x)
    IN  /\ poles' = Some(Denormalize(ps, norm))
        /\ residues' = Some(FittedResidues(n_responses, Len(ps), rv, norm))
        /\ constant_coeff' = Some(D)
        /\ proportional_coeff' =
               Some(FittedProportional(n_responses, frame.fit_proportional, x, norm))
        /\ behaviour' = b
        /\ pc' = "idle"
        /\ IF NetworkIsPassive(Get(network)) /\ ~frame.fit_proportional
           THEN IF x = NaN \/ SingularD(D)
                THEN \* self.is_passive(): eigvals of a test matrix with nan,
                     \* or the inverse of a singular matrix
                     /\ result' = Raised("vector_fit", "LinAlgError")
                     /\ warns' = warns
                ELSE /\ result' = Returned("vector_fit")
                     /\ warns' = IF BandTable.s[b] = <<>> THEN warns
                                 ELSE warns \cup {PassivityWarning}
           ELSE /\ result' = Returned("vector_fit")
                /\ warns' = warns
        /\ UNCHANGED <<settings, histories, frame>>

\* vector_fit from 'ITERATIONS DONE' to the end
VectorFitFinish ==
    /\ pc = "vf_loop"
    /\ ~RelocationGuard(frame.iterations)
    /\ IF OnSample(frame.poles, Get(network))
       THEN \* the coefficient matrix has inf/nan entries: lstsq raises or
            \* returns nan
            \/ /\ pc' = "idle"
               /\ result' = Raised("vector_fit", "LinAlgError")
               /\ UNCHANGED <<settings, model, histories, frame, warns>>
            \/ FinishWith(NaN, NaN, PassiveBehaviour)
       ELSE \E x \in LstsqVals, b \in FittedBehaviours :
                FinishWith(x, x, b)

----------------------------------------------------------------------------
(* Construction *)

\* VectorFitting(network), followed by the user's choice of max_iterations
Init ==
    /\ network \in {Some(net) : net \in Networks} \cup {None}
    /\ poles = None
    /\ residues = None
    /\ proportional_coeff = None
    /\ constant_coeff = None
    /\ behaviour = PassiveBehaviour
    /\ max_iterations \in 0..MaxIter
    /\ max_tol = DefaultMaxTol
    /\ d_res_history = <<>>
    /\ delta_max_history = <<>>
    /\ history_max_sigma = <<>>
    /\ history_cond_A = <<>>
    /\ pc = "idle"
    /\ frame = NoFrame
    /\ result = NoResult
    /\ warns = {}

\* the object has not been fitted or loaded
Fresh == fields = <<None, None, None, None>>

\* the default selector arguments of vector_fit
DefaultFitArgs(init_pole_spacing, parameter_type, fit_constant, fit_proportional) ==
    /\ init_pole_spacing = "lin"
    /\ parameter_type = "s"
    /\ fit_constant = TRUE
    /\ fit_proportional = FALSE

\* Harness: a fit is started on a fresh object, with every combination of
\* the selector arguments for the budgets up to MaxIterAllArgs and with the
\* default selectors for the larger budgets.
FitCall ==
    \E n_poles_real \in 0..MaxPolesReal, n_poles_cmplx \in 0..MaxPolesCmplx,
       init_pole_spacing \in SpacingArgs, parameter_type \in FitTypeArgs,
       fit_constant \in BOOLEAN, fit_proportional \in BOOLEAN :
        /\ Fresh
        /\ \/ max_iterations <= MaxIterAllArgs
           \/ DefaultFitArgs(init_pole_spacing, parameter_type,
                             fit_constant, fit_proportional)
        /\ VectorFitStart(n_poles_real, n_poles_cmplx, init_pole_spacing,
                          parameter_type, fit_constant, fit_proportional)

FitNext ==
    \/ FitCall
    \/ VectorFitEnterLoop
    \/ VectorFitIterate
    \/ VectorFitFinish

FitSpec == Init /\ [][FitNext]_vars

----------------------------------------------------------------------------
(* read_npz and attribute assignment *)

\* int(np.sqrt(n))
ISqrt(n) == CHOOSE r \in 0..n : r * r <= n /\ (r + 1) * (r + 1) > n

\* The arrays of the .npz files that are read: a one-port, a one-port with a
\* proportional term, a two-port without constants, and two files whose array
\* lengths do not fit together.  Poles are in rad/s on the grid of the header.
NpzFiles ==
    { [poles |-> <<[re |-> -1000, im |-> 0]>>,
       residues |-> << <<CoeffUnit>> >>,
       proportionals |-> Array1(<<0>>),
       constants |-> Array1(<<CoeffUnit>>)],
      [poles |-> <<[re |-> -100, im |-> 5000]>>,
       residues |-> << <<CoeffUnit>> >>,
       proportionals |-> Array1(<<1>>),
       constants |-> Array1(<<0>>)],
      [poles |-> <<[re |-> -1000, im |-> 0]>>,
       residues |-> << <<CoeffUnit>>, <<0>>, <<0>>, <<CoeffUnit>> >>,
       proportionals |-> Array1(<<0, 0, 0, 0>>),
       constants |-> Array1(<<0, 0, 0, 0>>)],
      [poles |-> <<[re |-> -1000, im |-> 0]>>,
       residues |-> << <<CoeffUnit>>, <<CoeffUnit>> >>,
       proportionals |-> Array1(<<0, 0>>),
       constants |-> Array1(<<0, 0>>)],
      [poles |-> <<[re |-> -1000, im |-> 0]>>,
       residues |-> << <<CoeffUnit>> >>,
       proportionals |-> Array1(<<0>>),
       constants |-> Array1(<<0, 0, 0, 0>>)] }

\* a shape test that compares the three lengths with each other only
ShapesAgree(file) ==
    /\ Len(file.residues) = NpLen(file.proportionals)
    /\ NpLen(file.proportionals) = NpLen(file.constants)

\* the shape test of read_npz
ShapesFit(file) ==
    LET n_ports == ISqrt(NpLen(file.constants))
        n_resp  == n_ports * n_ports
    IN  /\ Len(file.residues) = NpLen(file.proportionals)
        /\ NpLen(file.proportionals) = NpLen(file.constants)
        /\ NpLen(file.constants) = n_resp

ReadNpz(file, b) ==
    /\ pc = "idle"
    /\ IF ShapesFit(file)
       THEN /\ behaviour' = b
            /\ poles' = Some(file.poles)
            /\ residues' = Some(file.residues)
            /\ proportional_coeff' = Some(file.proportionals)
            /\ constant_coeff' = Some(file.constants)
            /\ result' = Returned("read_npz")
       ELSE /\ UNCHANGED model
            /\ result' = Raised("read_npz", "ValueError")
    /\ frame' = NoFrame
    /\ warns' = {}
    /\ UNCHANGED <<settings, histories, pc>>

ModelFields == {"poles", "residues", "proportional_coeff", "constant_coeff"}

\* the user sets one of the public attributes to None (residues also through
\* the deprecated 'zeros' setter)
UnsetField(field) ==
    /\ pc = "idle"
    /\ poles' = IF field = "poles" THEN None ELSE poles
    /\ residues' = IF field = "residues" THEN None ELSE residues
    /\ proportional_coeff' = IF field = "proportional_coeff" THEN None
                             ELSE proportional_coeff
    /\ constant_coeff' = IF field = "constant_coeff" THEN None ELSE constant_coeff
    /\ behaviour' = IF field \in ModelFields THEN PassiveBehaviour ELSE behaviour
    /\ network' = IF field = "network" THEN None ELSE network
    /\ frame' = NoFrame
    /\ result' = Returned("setattr")
    /\ warns' = IF field = "residues"
                THEN {Warning("DeprecationWarning", "attribute zeros is deprecated")}
                ELSE {}
    /\ UNCHANGED <<max_iterations, max_tol, histories, pc>>

----------------------------------------------------------------------------
(* _get_ABCDE, passivity_test, is_passive *)

\* the initial checks of _get_ABCDE (the same in both modes)
ModelUnset ==
    \/ poles = None
    \/ residues = None
    \/ proportional_coeff = None
    \/ constant_coeff = None

\* len(np.flatnonzero(self.proportional_coeff)) > 0
NonzeroProportional ==
    /\ proportional_coeff # None
    /\ \E i \in DOMAIN Get(proportional_coeff).data : Get(proportional_coeff).data[i] # 0

\* a selector test that lets every selector through
RouteAny(parameter_type) == TRUE

\* the selector of passivity_test and passivity_enforce is one of s, y, r
RouteSupported(parameter_type) == Lower(parameter_type) \in {"s", "y", "r"}

\* The exception with which passivity_test(parameter_type) ends before it
\* computes any band, or "none".
PassivityTestError(parameter_type) ==
    IF Lower(parameter_type) = "y"
    THEN (IF ModelUnset THEN "ValueError" ELSE "none")
    ELSE IF Lower(parameter_type) = "r"
    THEN (IF network = None THEN "AttributeError"
          ELSE IF ModelUnset THEN "ValueError" ELSE "none")
    ELSE IF ~RouteSupported(parameter_type) THEN "NotImplementedError"
    ELSE IF NonzeroProportional THEN "ValueError"
    ELSE IF ModelUnset THEN "ValueError"
    ELSE IF SingularD(Get(constant_coeff)) THEN "LinAlgError"
    ELSE "none"

\* a band list that is kept between the calls and appended to
TestBandsKept(parameter_type, b) ==
    (IF result.op = "passivity_test" /\ result.status = "returned" THEN result.value ELSE <<>>)
    \o (IF Lower(parameter_type) = "y" THEN BandTable.y[b]
        ELSE IF Lower(parameter_type) = "r" THEN SweepTable[Get(network)][b]
        ELSE BandTable.s[b])

\* the bands that passivity_test(parameter_type) returns for a model with the
\* given behaviour
TestBands(parameter_type, b) ==
    IF Lower(parameter_type) = "y" THEN BandTable.y[b]
    ELSE IF Lower(parameter_type) = "r" THEN SweepTable[Get(network)][b]
    ELSE BandTable.s[b]

\* the test on D of is_passive after an empty band list; the selector is
\* compared as given, without lower()
DTestPasses(parameter_type) ==
    LET D == Get(constant_coeff).data
    IN  IF parameter_type = "r"
        THEN \A i \in DOMAIN D : Abs(D[i]) < CoeffUnit
        ELSE IF parameter_type = "y"
        THEN \A i \in DOMAIN D : D[i] > 0
        ELSE TRUE

\* the value of is_passive(parameter_type) when passivity_test returned bands
IsPassiveValue(parameter_type, bands) ==
    IF Len(bands) # 0 THEN FALSE ELSE DTestPasses(parameter_type)

TestTypeArgs == {"s", "S", "y", "Y", "r", "z"}

\* the value returned by passivity_test or is_passive, with the selector of
\* the call
TestReturned(op, parameter_type, v) ==
    [op |-> op, status |-> "returned", value |-> v, parameter_type |-> parameter_type]

PassivityTest(parameter_type) ==
    /\ pc = "idle"
    /\ IF PassivityTestError(parameter_type) # "none"
       THEN result' = Raised("passivity_test", PassivityTestError(parameter_type))
       ELSE result' = TestReturned("passivity_test", parameter_type,
                                   TestBands(parameter_type, behaviour))
    /\ frame' = NoFrame
    /\ warns' = {}
    /\ UNCHANGED <<settings, model, histories, pc>>

IsPassive(parameter_type) ==
    /\ pc = "idle"
    /\ IF PassivityTestError(parameter_type) # "none"
       THEN result' = Raised("is_passive", PassivityTestError(parameter_type))
       ELSE result' = TestReturned("is_passive", parameter_type,
                          <<IsPassiveValue(parameter_type, TestBands(parameter_type, behaviour))>>)
    /\ frame' = NoFrame
    /\ warns' = {}
    /\ UNCHANGED <<settings, model, histories, pc>>

----------------------------------------------------------------------------
(* get_model_response, get_rms_error *)

UnsetWarning == Warning("RuntimeWarning", "returning a zero-vector; the model has not been fitted")

\* an evaluation that raises on an unset field
ModelResponseRaising(freqs_given) ==
    IF ModelUnset THEN [status |-> "RuntimeError", value |-> <<>>, warns |-> {}]
    ELSE IF ~freqs_given /\ network = None
    THEN [status |-> "AttributeError", value |-> <<>>, warns |-> {}]
    ELSE [status |-> "returned", value |-> <<"response">>, warns |-> {}]

\* The outcome of get_model_response(i, j, freqs): the initial checks return
\* np.zeros_like(freqs) with a warning.
ModelResponse(freqs_given) ==
    IF ModelUnset THEN [status |-> "returned", value |-> <<"zeros">>, warns |-> {UnsetWarning}]
    ELSE IF ~freqs_given /\ network = None
    THEN [status |-> "AttributeError", value |-> <<>>, warns |-> {}]
    ELSE [status |-> "returned", value |-> <<"response">>, warns |-> {}]

GetModelResponse(freqs_given) ==
    /\ pc = "idle"
    /\ LET r == ModelResponse(freqs_given)
       IN  /\ result' = [op |-> "get_model_response", status |-> r.status,
                         value |-> r.value]
           /\ warns' = r.warns
    /\ frame' = NoFrame
    /\ UNCHANGED <<settings, model, histories, pc>>

\* a selector test that lets every selector through
RmsTypeAny(parameter_type) == TRUE

\* the selector of get_rms_error is one of s, z, y
RmsTypeValid(parameter_type) == Lower(parameter_type) \in {"s", "z", "y"}

\* The outcome of get_rms_error(i, j, parameter_type); all_rows and all_cols
\* stand for i == -1 and j == -1.
RmsError(all_rows, all_cols, parameter_type) ==
    IF (all_rows \/ all_cols) /\ network = None
    THEN [status |-> "AttributeError", value |-> <<>>, warns |-> {}]
    ELSE IF ~RmsTypeValid(parameter_type)
    THEN [status |-> "ValueError", value |-> <<>>, warns |-> {}]
    ELSE IF network = None
    THEN [status |-> "AttributeError", value |-> <<>>, warns |-> {}]
    ELSE LET r == ModelResponse(TRUE)
         IN  [status |-> r.status,
              value |-> IF r.value = <<"zeros">> THEN <<"rms of the samples">>
                        ELSE <<"rms of the error">>,
              warns |-> r.warns]

RmsTypeArgs == {"s", "Y", "r"}

GetRmsError(all_rows, all_cols, parameter_type) ==
    /\ pc = "idle"
    /\ LET r == RmsError(all_rows, all_cols, parameter_type)
       IN  /\ result' = [op |-> "get_rms_error", status |-> r.status, value |-> r.value]
           /\ warns' = r.warns
    /\ frame' = NoFrame
    /\ UNCHANGED <<settings, model, histories, pc>>

----------------------------------------------------------------------------
(* passivity_enforce, scattering route *)

\* oracle: the largest singular value of the sampled model, in 1/1000
SigmaVals == {900, 1000, 1100}

\* sigma_max < 1.0
SigmaPassive == 1000

\* the cap of the perturbation target delta, 0.999
DeltaCap == 999

\* oracle: entries of the least-squares solution x of the perturbation fit
PerturbVals == {0, CoeffUnit}

\* delta: the largest singular value of the network data, at most 0.999
Delta == IF network # None
         THEN (IF Get(network).s_max > DeltaCap THEN DeltaCap ELSE Get(network).s_max)
         ELSE DeltaCap

UnboundedWarning ==
    Warning("UserWarning", "the passivity violations of this model are unbounded")

EnforceBudgetWarning ==
    Warning("RuntimeWarning", "aborting after the max. number of iterations has been exceeded")

NotSuccessfulWarning ==
    Warning("RuntimeWarning", "passivity enforcement was not successful")

\* a D_t that always holds the constants
PerturbedConstantAlways ==
    Some(Get(constant_coeff).data)

\* D_t is None when D holds only zeros
PerturbedConstant ==
    LET D == Get(constant_coeff).data
    IN  IF \A i \in DOMAIN D : D[i] = 0 THEN None ELSE Some(D)

\* the entries of a matrix lowered by x
Perturb(rows, x) == [i \in DOMAIN rows |-> [k \in DOMAIN rows[i] |-> rows[i][k] - x]]

\* while t < self.max_iterations
EnforceGuard(t, budget) == t < budget

\* the statements of passivity_enforce for the scattering route, up to the loop
EnforceStartS(f_max_given) ==
    LET bands == BandTable.s[behaviour]
    IN  IF IsPassiveValue("s", bands)
        THEN /\ result' = Returned("passivity_enforce")
             /\ warns' = {}
             /\ frame' = NoFrame
             /\ UNCHANGED <<pc, history_max_sigma>>
        ELSE IF ~f_max_given /\ network = None
        THEN /\ result' = Raised("passivity_enforce", "RuntimeError")
             /\ warns' = {}
             /\ frame' = NoFrame
             /\ UNCHANGED <<pc, history_max_sigma>>
        ELSE /\ pc' = "pe_loop"
             /\ frame' = [op |-> "passivity_enforce", t |-> 0, broke |-> FALSE,
                          perturbed |-> FALSE,
                          C_t |-> Get(residues), D_t |-> PerturbedConstant,
                          delta |-> Delta]
             /\ history_max_sigma' = <<>>
             /\ warns' = IF bands[Len(bands)].f_stop = Unbounded
                         THEN {UnboundedWarning} ELSE {}
             /\ result' = Running("passivity_enforce")

\* Oracle: sigma_max of the pass, the largest singular value of the model
\* with C_t and D_t on the grid freqs_eval.  The grid ends at 1.2 times the
\* larger of 1.5 times the start of an unbounded band and the last sample
\* frequency, inside the unbounded band, so a model with such a band has a
\* singular value above 1 on the grid.  A pass that follows a pass without
\* perturbation evaluates the same C_t and D_t again.
SigmaOutcomes ==
    LET bands == BandTable.s[behaviour]
    IN  IF frame.t > 0 /\ ~frame.perturbed
        THEN {history_max_sigma[Len(history_max_sigma)]}
        ELSE IF frame.t = 0 /\ bands[Len(bands)].f_stop = Unbounded
        THEN {v \in SigmaVals : v > SigmaPassive}
        ELSE SigmaVals

\* one pass of the body of the compensation loop
EnforceIterate ==
    /\ pc = "pe_loop"
    /\ ~frame.broke
    /\ EnforceGuard(frame.t, max_iterations)
    /\ \E sigma_max \in SigmaOutcomes, x \in PerturbVals :
          /\ sigma_max <= frame.delta => x = 0
          /\ frame' = [frame EXCEPT
                          !.perturbed = x # 0,
                          !.C_t = Perturb(frame.C_t, x),
                          !.D_t = IF frame.D_t = None THEN None
                                  ELSE Some([i \in DOMAIN Get(frame.D_t) |->
                                                 Get(frame.D_t)[i] - x]),
                          !.t = frame.t + 1,
                          !.broke = sigma_max < SigmaPassive]
          /\ history_max_sigma' = Append(history_max_sigma, sigma_max)
    /\ UNCHANGED <<settings, model, d_res_history, delta_max_history, history_cond_A,
                   pc, result, warns>>

\* a final test whose outcome is not reported
FinalTestSilent(violation_bands) == {}

\* if len(violation_bands) > 0: warnings.warn(...) after the final test
FinalTestWarnings(violation_bands) ==
    IF Len(violation_bands) > 0 THEN {NotSuccessfulWarning} ELSE {}

\* The behaviour of the model after residues and constants have been written:
\* the same behaviour when the same values were written, any behaviour of a
\* model of that size otherwise.
Rewritten(new_residues, new_constant_coeff) ==
    IF new_residues = residues /\ new_constant_coeff = constant_coeff
    THEN {behaviour}
    ELSE Behaviours(ISqrt(NpLen(Get(new_constant_coeff))))

\* the statements after the loop: warning, write-back, final test
EnforceFinish ==
    /\ pc = "pe_loop"
    /\ frame.broke \/ ~EnforceGuard(frame.t, max_iterations)
    /\ residues' = Some(frame.C_t)
    /\ constant_coeff' = IF frame.D_t = None THEN constant_coeff
                         ELSE Some(Array1(Get(frame.D_t)))
    /\ behaviour' \in Rewritten(residues', constant_coeff')
    /\ LET budget == IF frame.t = max_iterations THEN {EnforceBudgetWarning} ELSE {}
       IN  IF SingularD(Get(constant_coeff'))
           THEN \* the final passivity_test cannot invert D - I or D + I
                /\ warns' = warns \cup budget
                /\ result' = Raised("passivity_enforce", "LinAlgError")
           ELSE /\ warns' = warns \cup budget
                             \cup FinalTestWarnings(BandTable.s[behaviour'])
                /\ result' = Returned("passivity_enforce")
    /\ pc' = "idle"
    /\ frame' = NoFrame
    /\ UNCHANGED <<settings, poles, proportional_coeff, histories>>

----------------------------------------------------------------------------
(* passivity_enforce, admittance and reflection routes *)

niter_out == 60

niter_in == 2

\* while iter_out <= niter_out
OuterGuard(iter_out) == iter_out <= niter_out

\* n_ports = int(np.sqrt(len(self.constant_coeff)))
NPorts == ISqrt(NpLen(Get(constant_coeff)))

\* D of _get_ABCDE(for_passivity_enforcing=True): D[0, 0] = constant_coeff[0],
\* zero elsewhere; kept as the diagonal
EnforcingD == [i \in 1..NPorts |-> IF i = 1 THEN Get(constant_coeff).data[1] ELSE 0]

\* the test on D1 that ends the outer loop, on a diagonal D1: all |D1| < 1 for
\* r (the zeros off the diagonal pass), eigenvalues >= 0 otherwise
DKeeps(parameter_type, D1) ==
    IF parameter_type = "r"
    THEN \A i \in DOMAIN D1 : Abs(D1[i]) < CoeffUnit
    ELSE \A i \in DOMAIN D1 : D1[i] >= 0

\* the test on D1 that ends the inner loop when no extremum was found
DStrict(parameter_type, D1) ==
    IF parameter_type = "r"
    THEN \A i \in DOMAIN D1 : Abs(D1[i]) < CoeffUnit
    ELSE \A i \in DOMAIN D1 : D1[i] > 0

\* oracle: what FRPR / FRPY return, as the value of the entries of C1 and of
\* the diagonal of D1, or the ValueError of quadprog.solve_qp
FRPOutcomes ==
    {[raises |-> TRUE, c |-> 0, d |-> 0]}
    \cup {[raises |-> FALSE, c |-> c, d |-> d] :
              c \in {0, CoeffUnit}, d \in {-CoeffUnit, CoeffUnit \div 2}}

\* self.residues[0, z] = C1[0, k]
WriteFirstResponse(rows, c) ==
    [i \in DOMAIN rows |-> IF i = 1 THEN [k \in DOMAIN rows[i] |-> c] ELSE rows[i]]

\* D1.copy(): the n x n matrix with d on the diagonal
DiagMatrix(n, d) ==
    Array2(n, n, [k \in 1..(n * n) |-> IF (k - 1) \div n = (k - 1) % n THEN d ELSE 0])

\* the statements of passivity_enforce_y_or_r up to the outer loop
EnforceStartYR(parameter_type) ==
    LET bands == TestBands(parameter_type, behaviour)
    IN  IF IsPassiveValue(parameter_type, bands)
        THEN /\ result' = Returned("passivity_enforce")
             /\ frame' = NoFrame
             /\ UNCHANGED pc
        ELSE IF network = None
        THEN /\ result' = Raised("passivity_enforce", "AttributeError")
             /\ frame' = NoFrame
             /\ UNCHANGED pc
        ELSE /\ pc' = "yr_loop"
             /\ frame' = [op |-> "passivity_enforce_y_or_r",
                          parameter_type |-> parameter_type,
                          iter_out |-> 0, iter_in |-> 0, break_outer |-> FALSE,
                          n_ports |-> NPorts, D1 |-> EnforcingD,
                          s2 |-> <<>>, s3 |-> <<>>,
                          constraints |-> <<>>, accumulated |-> <<>>]
             /\ result' = Running("passivity_enforce")

YRRaise(exc) ==
    /\ pc' = "idle"
    /\ frame' = NoFrame
    /\ result' = Raised("passivity_enforce", exc)

\* the writes of one pass of the inner loop
WriteBack(outcome) ==
    /\ residues' = Some(WriteFirstResponse(Get(residues), outcome.c))
    /\ constant_coeff' = Some(DiagMatrix(frame.n_ports, outcome.d))
    /\ behaviour' \in Rewritten(residues', constant_coeff')
    /\ UNCHANGED <<poles, proportional_coeff>>

\* oracle: the extrema that violextrema finds in the bands: none, or the
\* first sample of every band (s_pass_ind[0] = 1)
ViolExtrema(bands) ==
    IF bands = <<>> THEN {<<>>}
    ELSE {<<>>, [i \in DOMAIN bands |-> bands[i].f_start]}

\* 's_viol in s2' of two arrays is (s2 == s_viol).any(): "true" or "false" when
\* the shapes broadcast; when they do not, False or a ValueError, depending
\* on the numpy of the build
ContainsOutcomes(s_viol, s2) ==
    IF Len(s_viol) = Len(s2)
    THEN {IF \E k \in DOMAIN s2 : s2[k] = s_viol[k] THEN "true" ELSE "false"}
    ELSE IF Len(s_viol) = 1
    THEN {IF \E k \in DOMAIN s2 : s2[k] = s_viol[1] THEN "true" ELSE "false"}
    ELSE IF Len(s2) = 1
    THEN {IF \E k \in DOMAIN s_viol : s_viol[k] = s2[1] THEN "true" ELSE "false"}
    ELSE {"false", "ValueError"}

\* s3 after a pass that is not the last pass of the inner loop
Accumulate(s3, s2, s_viol, contained) ==
    IF Len(s3) = 0
    THEN IF Len(s_viol) = 0 \/ contained = "true" THEN s2 ELSE s2 \o s_viol
    ELSE s3 \o s2 \o s_viol

\* One call of FRPY / FRPR with the constraint points s2 and s3, and the
\* statements after it.  With more than one port
\* 'if violation:' in FRPY / FRPR is the truth value of an array with more
\* than one element, a ValueError.  After the last pass of the inner loop the
\* outer loop counts on; 'accumulated' remembers the s3 of the finished pass
\* until the next call of FRPY / FRPR.
PerturbationPass(s2, s3) ==
    IF frame.n_ports > 1
    THEN YRRaise("ValueError") /\ UNCHANGED model
    ELSE \E outcome \in FRPOutcomes :
             IF outcome.raises
             THEN YRRaise("ValueError") /\ UNCHANGED model
             ELSE /\ WriteBack(outcome)
                  /\ IF frame.iter_in # niter_in - 1
                     THEN \E s_viol \in ViolExtrema(TestBands(frame.parameter_type, behaviour')) :
                             IF Len(s3) = 0 /\ Len(s_viol) # 0
                             THEN \E contained \in ContainsOutcomes(s_viol, s2) :
                                     IF contained = "ValueError"
                                     THEN YRRaise("ValueError")
                                     ELSE /\ frame' = [frame EXCEPT
                                                 !.iter_in = frame.iter_in + 1,
                                                 !.D1 = [i \in 1..frame.n_ports |-> outcome.d],
                                                 !.s2 = s2,
                                                 !.s3 = Accumulate(s3, s2, s_viol, contained),
                                                 !.constraints = s2 \o s3,
                                                 !.accumulated = <<>>]
                                          /\ UNCHANGED <<pc, result>>
                             ELSE /\ frame' = [frame EXCEPT
                                         !.iter_in = frame.iter_in + 1,
                                         !.D1 = [i \in 1..frame.n_ports |-> outcome.d],
                                         !.s2 = s2,
                                         !.s3 = Accumulate(s3, s2, s_viol, "false"),
                                         !.constraints = s2 \o s3,
                                         !.accumulated = <<>>]
                                  /\ UNCHANGED <<pc, result>>
                     ELSE /\ frame' = [frame EXCEPT
                                 !.iter_in = 0,
                                 !.iter_out = frame.iter_out + 1,
                                 !.D1 = [i \in 1..frame.n_ports |-> outcome.d],
                                 !.s2 = <<>>,
                                 !.s3 = <<>>,
                                 !.constraints = s2 \o s3,
                                 !.accumulated = s3]
                          /\ UNCHANGED <<pc, result>>

\* a pass of the outer loop up to the end of the first pass of the inner loop
EnforceOuterPass ==
    /\ pc = "yr_loop"
    /\ frame.iter_in = 0
    /\ OuterGuard(frame.iter_out)
    /\ ~frame.break_outer
    /\ LET bands == TestBands(frame.parameter_type, behaviour)
       IN IF bands = <<>> /\ DKeeps(frame.parameter_type, frame.D1)
          THEN /\ frame' = [frame EXCEPT !.break_outer = TRUE,
                                         !.iter_out = frame.iter_out + 1,
                                         !.constraints = <<>>,
                                         !.accumulated = <<>>]
               /\ UNCHANGED <<model, pc, result>>
          ELSE IF frame.n_ports > 1 /\ (bands # <<>> \/ frame.parameter_type = "r")
          THEN YRRaise("ValueError") /\ UNCHANGED model
          ELSE \E s_viol \in ViolExtrema(bands) :
                   LET s2 == NpSort(s_viol)
                   IN  IF Len(s2) = 0 /\ DStrict(frame.parameter_type, frame.D1)
                       THEN /\ frame' = [frame EXCEPT !.iter_out = frame.iter_out + 1,
                                                      !.constraints = <<>>,
                                                      !.accumulated = <<>>]
                            /\ UNCHANGED <<model, pc, result>>
                       ELSE PerturbationPass(s2, <<>>)
    /\ UNCHANGED <<settings, histories, warns>>

\* a later pass of the inner loop (iter_in > 0)
EnforceInnerPass ==
    /\ pc = "yr_loop"
    /\ frame.iter_in > 0
    /\ PerturbationPass(<<>>, frame.s3)
    /\ UNCHANGED <<settings, histories, warns>>

\* the loop is left by its condition or by 'if break_outer: break'
EnforceOuterDone ==
    /\ pc = "yr_loop"
    /\ frame.iter_in = 0
    /\ frame.break_outer \/ ~OuterGuard(frame.iter_out)
    /\ pc' = "idle"
    /\ frame' = NoFrame
    /\ result' = Returned("passivity_enforce")
    /\ UNCHANGED <<settings, model, histories, warns>>

EnforceTypeArgs == {"s", "S", "y", "R", "z"}

\* passivity_enforce(f_max=..., parameter_type=...) up to the first loop pass
PassivityEnforce(parameter_type, f_max_given) ==
    /\ pc = "idle"
    /\ IF PassivityTestError(parameter_type) # "none"
       THEN /\ result' = Raised("passivity_enforce", PassivityTestError(parameter_type))
            /\ frame' = NoFrame
            /\ warns' = {}
            /\ UNCHANGED <<pc, history_max_sigma>>
       ELSE IF Lower(parameter_type) \in {"y", "r"}
       THEN /\ EnforceStartYR(Lower(parameter_type))
            /\ warns' = {}
            /\ UNCHANGED history_max_sigma
       ELSE EnforceStartS(f_max_given)
    /\ UNCHANGED <<settings, model, d_res_history, delta_max_history, history_cond_A>>

----------------------------------------------------------------------------
(* The model object outside of vector_fit *)

\* residues and constants are those of a file (not yet perturbed), or unset
Unperturbed ==
    /\ residues = None \/ \E file \in NpzFiles : residues = Some(file.residues)
    /\ constant_coeff = None \/ \E file \in NpzFiles : constant_coeff = Some(file.constants)

\* no enforcement has written to the object yet, and no relocation loop has run
NotEnforced == Unperturbed /\ histories = <<<<>>, <<>>, <<>>, <<>>>>

\* the network of the object, when there is one, has the ports of the model
NetworkOfModel ==
    network # None /\ constant_coeff # None => Get(network).nports = NPorts

\* Harness: the admittance and reflection routes do not read max_iterations
\* and f_max; they are entered with the largest budget, without f_max, and
\* with the network the model belongs to.
EnforceCall ==
    /\ NotEnforced
    /\ \E parameter_type \in EnforceTypeArgs, f_max_given \in BOOLEAN :
          /\ Lower(parameter_type) \in {"y", "r"} =>
                 max_iterations = MaxIter /\ ~f_max_given /\ NetworkOfModel
          /\ PassivityEnforce(parameter_type, f_max_given)

LoadCall ==
    /\ NotEnforced
    /\ \E file \in NpzFiles :
          \E b \in Behaviours(ISqrt(NpLen(file.constants))) : ReadNpz(file, b)

UnsetCall == NotEnforced /\ \E field \in ModelFields \cup {"network"} : UnsetField(field)

ApiNext ==
    \/ LoadCall
    \/ UnsetCall
    \/ \E parameter_type \in TestTypeArgs : PassivityTest(parameter_type)
    \/ \E parameter_type \in TestTypeArgs : IsPassive(parameter_type)
    \/ EnforceCall
    \/ EnforceIterate
    \/ EnforceFinish
    \/ EnforceOuterPass
    \/ EnforceInnerPass
    \/ EnforceOuterDone
    \/ \E freqs_given \in BOOLEAN : GetModelResponse(freqs_given)
    \/ \E all_rows \in BOOLEAN, all_cols \in BOOLEAN, parameter_type \in RmsTypeArgs :
          GetRmsError(all_rows, all_cols, parameter_type)

ApiSpec == Init /\ [][ApiNext]_vars

\* vector_fit together with the evaluation of the fit
EvalNext ==
    \/ FitNext
    \/ \E all_rows \in BOOLEAN, all_cols \in BOOLEAN, parameter_type \in RmsTypeArgs :
          GetRmsError(all_rows, all_cols, parameter_type)

EvalSpec == Init /\ [][EvalNext]_vars

\* a step of a call that is in progress
LoopStep ==
    \/ VectorFitEnterLoop
    \/ VectorFitIterate
    \/ VectorFitFinish
    \/ EnforceIterate
    \/ EnforceFinish
    \/ EnforceOuterPass
    \/ EnforceInnerPass
    \/ EnforceOuterDone

\* a file without proportional term is read into a fresh object
FirstLoad ==
    /\ Fresh
    /\ LoadCall
    /\ proportional_coeff' # None =>
           \A k \in DOMAIN Get(proportional_coeff').data : Get(proportional_coeff').data[k] = 0

LoopNext == FitCall \/ FirstLoad \/ EnforceCall \/ LoopStep

\* An object into which a well-formed file has been read, with the network
\* of the constructor
TestInit ==
    /\ network \in {Some(net) : net \in Networks}
    /\ \E file \in {f \in NpzFiles : ShapesFit(f)} :
          /\ poles = Some(file.poles)
          /\ residues = Some(file.residues)
          /\ proportional_coeff = Some(file.proportionals)
          /\ constant_coeff = Some(file.constants)
          /\ behaviour \in TestBehaviours(ISqrt(NpLen(file.constants)))
    /\ max_iterations = MaxIter
    /\ max_tol = DefaultMaxTol
    /\ d_res_history = <<>>
    /\ delta_max_history = <<>>
    /\ history_max_sigma = <<>>
    /\ history_cond_A = <<>>
    /\ pc = "idle"
    /\ frame = NoFrame
    /\ result = Returned("read_npz")
    /\ warns = {}

TestNext ==
    \/ \E parameter_type \in TestTypeArgs : PassivityTest(parameter_type)
    \/ \E parameter_type \in TestTypeArgs : IsPassive(parameter_type)

\* the passivity tests of a loaded model
TestSpec == TestInit /\ [][TestNext]_vars

----------------------------------------------------------------------------
(* _get_ABCDE: the layout of C, and its reading by the write-back *)

MaxLayoutPoles == 2

RealPole == [re |-> -1000, im |-> 0]

CmplxPole == [re |-> -100, im |-> 5000]

\* the pole lists of the layout check
LayoutPoles == UNION {[1..n -> {RealPole, CmplxPole}] : n \in 1..MaxLayoutPoles}

\* Complex residues [response, pole] of a model with the poles ps: every
\* residue has its own real part, the residue of a real pole is real, the one
\* of a conjugate pair has the imaginary part 1 or exactly 0.
LayoutResidues(ps, n_ports) ==
    { [r \in 1..(n_ports * n_ports) |->
          [k \in 1..Len(ps) |->
              [re |-> 10 * r + k, im |-> IF IsCmplxPole(ps[k]) THEN ims[r][k] ELSE 0]]] :
      ims \in [1..(n_ports * n_ports) -> [1..Len(ps) -> {0, 1}]] }

\* n_poles_real + 2 * n_poles_cplx
StatesPerPort(ps) == Len(SelectSeq(ps, IsRealPole)) + 2 * Len(SelectSeq(ps, IsCmplxPole))

\* the first column (counted from 0) of pole z inside the block of a port in
\* A and B: i_A advances by 1 for a real pole and by 2 for a conjugate pair
PoleOffset(ps, z) == StatesPerPort(SubSeq(ps, 1, z - 1))

\* 'for zero in self.residues[i_response]' from residue k on: one column for a
\* residue with np.imag(zero) == 0.0, two columns otherwise
RECURSIVE WriteResidues(_, _, _, _, _)
WriteResidues(row, zeros, k, base, j_residues) ==
    IF k > Len(zeros) THEN row
    ELSE IF zeros[k].im = 0
    THEN WriteResidues([row EXCEPT ![base + j_residues + 1] = zeros[k].re],
                       zeros, k + 1, base, j_residues + 1)
    ELSE WriteResidues([row EXCEPT ![base + j_residues + 1] = zeros[k].re,
                                   ![base + j_residues + 2] = zeros[k].im],
                       zeros, k + 1, base, j_residues + 2)

\* row i of C: 'for j in range(n_ports)' from port j on
RECURSIVE WritePorts(_, _, _, _, _, _)
WritePorts(row, rs, ps, n_ports, i, j) ==
    IF j > n_ports THEN row
    ELSE WritePorts(WriteResidues(row, rs[(i - 1) * n_ports + j], 1,
                                  (j - 1) * StatesPerPort(ps), 0),
                    rs, ps, n_ports, i, j + 1)

\* C of the full realization of _get_ABCDE
RealizationC(ps, rs, n_ports) ==
    [i \in 1..n_ports |->
        WritePorts([c \in 1..(StatesPerPort(ps) * n_ports) |-> 0], rs, ps, n_ports, i, 1)]

\* the residues that the write-back of passivity_enforce reads from C_t: k
\* advances by 1 for a real pole and by 2 for a conjugate pair, through all
\* ports of row i
WrittenBack(C_t, ps, n_ports) ==
    [r \in 1..(n_ports * n_ports) |->
        [z \in 1..Len(ps) |->
            LET i == ((r - 1) \div n_ports) + 1
                j == ((r - 1) % n_ports) + 1
                k == (j - 1) * StatesPerPort(ps) + PoleOffset(ps, z)
            IN  IF IsRealPole(ps[z])
                THEN [re |-> C_t[i][k + 1], im |-> 0]
                ELSE [re |-> C_t[i][k + 1], im |-> C_t[i][k + 2]]]]

\* _get_ABCDE() of the stored model; the result holds C
GetABCDE ==
    /\ pc = "idle"
    /\ result' = ReturnedValue("_get_ABCDE",
                     RealizationC(Get(poles), Get(residues), NPorts))
    /\ UNCHANGED <<settings, model, histories, pc, frame, warns>>

\* the write-back of a passivity_enforce whose loop has made no pass: C_t is
\* the C of _get_ABCDE
WriteBackUnperturbed ==
    /\ pc = "idle"
    /\ residues' = Some(WrittenBack(RealizationC(Get(poles), Get(residues), NPorts),
                                    Get(poles), NPorts))
    /\ result' = Returned("write_back")
    /\ UNCHANGED <<settings, poles, proportional_coeff, constant_coeff, behaviour,
                   histories, pc, frame, warns>>

\* a model of one or two ports with complex residues
LayoutInit ==
    /\ network = None
    /\ \E ps \in LayoutPoles, n_ports \in 1..2 :
          /\ poles = Some(ps)
          /\ residues \in {Some(rs) : rs \in LayoutResidues(ps, n_ports)}
          /\ proportional_coeff = Some(Array1([r \in 1..(n_ports * n_ports) |-> 0]))
          /\ constant_coeff = Some(Array1([r \in 1..(n_ports * n_ports) |-> 0]))
    /\ behaviour = PassiveBehaviour
    /\ max_iterations = MaxIter
    /\ max_tol = DefaultMaxTol
    /\ d_res_history = <<>>
    /\ delta_max_history = <<>>
    /\ history_max_sigma = <<>>
    /\ history_cond_A = <<>>
    /\ pc = "idle"
    /\ frame = NoFrame
    /\ result = Returned("read_npz")
    /\ warns = {}

LayoutNext == GetABCDE \/ WriteBackUnperturbed

\* the state-space realization of a loaded model and its write-back
LayoutSpec == LayoutInit /\ [][LayoutNext]_vars

\* The interpreter runs a call to its end: a step of the call in progress is
\* always enabled and is eventually taken.
LoopSpec == Init /\ [][LoopNext]_vars /\ WF_vars(LoopStep)

----------------------------------------------------------------------------
(* Properties of vector_fit *)

BudgetWarningIssued ==
    \E w \in warns :
        /\ w.category = "RuntimeWarning"
        /\ w.msg \in {"barely converged; took the max. number of iterations",
                      "did not converge; reached the max. number of iterations"}

\* the relocation loop of the call has ended (pc is at the loop or behind it)
LoopEnded ==
    /\ frame.op = "vector_fit"
    /\ pc \in {"vf_loop", "idle"}
    /\ result.status # "AttributeError"
    /\ frame.iterations = 0

Below(i) == delta_max_history[i] < max_tol

\* C1: after every relocation iteration the pending flag 'converged' says
\* whether the delta_max of that iteration was below max_tol, the loop has
\* stopped exactly if that delta_max and the one of the iteration before it
\* were both below max_tol, and the budget that is left is max_iterations minus
\* the iterations done unless the loop has stopped.
C1_StopOnlyOnTwoConsecutiveBelow ==
    LET n == Len(delta_max_history)
    IN  (pc = "vf_loop" /\ n >= 1) =>
            /\ frame.converged <=> Below(n)
            /\ frame.stop <=> (n >= 2 /\ Below(n) /\ Below(n - 1))
            /\ frame.iterations = IF frame.stop THEN 0 ELSE max_iterations - n

\* C1 witness: the loop has stopped with budget left, after a delta above
\* max_tol had cleared the pending flag
C1_Witness ==
    /\ pc = "vf_loop"
    /\ frame.stop
    /\ Len(delta_max_history) < max_iterations

\* C3: when the relocation loop has ended without the double-convergence
\* stop, the budget warning has been issued, and once vector_fit is over it
\* has returned normally with the four model fields set.
C3_ExhaustedBudgetWarnsAndReturns ==
    (LoopEnded /\ ~frame.stop) =>
        /\ BudgetWarningIssued
        /\ pc = "idle" =>
              /\ result.status = "returned"
              /\ poles # None /\ residues # None
              /\ constant_coeff # None /\ proportional_coeff # None

\* C4: after vector_fit has returned every stored pole has a real part < 0 and
\* an imaginary part >= 0.
C4_StoredPolesStable ==
    (pc = "idle" /\ result.op = "vector_fit" /\ result.status = "returned") =>
        \A k \in 1..Len(Get(poles)) :
            Get(poles)[k].re < 0 /\ Get(poles)[k].im >= 0

\* C5: every entry of d_res_history is a number of magnitude >= tol_res.
C5_DResHistoryClamped ==
    \A i \in 1..Len(d_res_history) :
        d_res_history[i] # NaN /\ Abs(d_res_history[i]) >= tol_res

\* C6: with an init_pole_spacing other than 'lin' and 'log' the UserWarning
\* is issued and the starting poles are those of init_pole_spacing = 'lin'.
C6_FallbackIsLinearSpacing ==
    (pc = "vf_init" /\ frame.init_pole_spacing \notin {"lin", "log"}) =>
        /\ SpacingWarnings(frame.init_pole_spacing) \subseteq warns
        /\ SpacingWarnings(frame.init_pole_spacing) # {}
        /\ frame.poles = StartingPoles("lin", Get(network), frame.n_poles_real,
                                       frame.n_poles_cmplx)

----------------------------------------------------------------------------
(* Properties of the loops *)

\* C2: no history of vector_fit's relocation loop and of the scattering-route
\* loop of passivity_enforce grows beyond max_iterations entries, the pass
\* counters stay within their budgets, and every call that is in progress
\* comes to its end.
C2_LoopsTerminateWithinBudget ==
    /\ [](/\ Len(history_cond_A) <= max_iterations
          /\ Len(d_res_history) <= max_iterations
          /\ Len(delta_max_history) <= max_iterations
          /\ Len(history_max_sigma) <= max_iterations
          /\ pc = "pe_loop" => frame.t <= max_iterations
          /\ pc = "yr_loop" => frame.iter_out <= niter_out + 1)
    /\ (pc # "idle") ~> (pc = "idle")

\* C2 witness: vector_fit has returned after max_iterations > 0 passes
C2_Witness ==
    /\ pc = "idle"
    /\ result.op = "vector_fit"
    /\ result.status = "returned"
    /\ max_iterations > 0
    /\ Len(history_cond_A) = max_iterations

----------------------------------------------------------------------------
(* Properties of the error handling *)

SupportedRoutes == {pt \in TestTypeArgs \cup EnforceTypeArgs : Lower(pt) \in {"s", "y", "r"}}

UnsupportedRoutes == (TestTypeArgs \cup EnforceTypeArgs) \ SupportedRoutes

\* C7: with a model field unset, passivity_test, is_passive and
\* passivity_enforce raise ValueError for every selector s, y, r and change no
\* model field and no history.
C7_UnsetModelRaisesValueError ==
    [][\A parameter_type \in SupportedRoutes :
          (/\ ModelUnset
           /\ pc = "idle"
           /\ \/ PassivityTest(parameter_type)
              \/ IsPassive(parameter_type)
              \/ \E f_max_given \in BOOLEAN : PassivityEnforce(parameter_type, f_max_given))
          => (result'.status = "ValueError" /\ UNCHANGED <<model, histories>>)]_vars

\* C8 as stated: with a model field unset, get_model_response and
\* get_rms_error end with an error.
C8_UnsetModelAbortsEvaluation ==
    [][(/\ ModelUnset
        /\ pc = "idle"
        /\ \/ \E freqs_given \in BOOLEAN : GetModelResponse(freqs_given)
           \/ \E all_rows \in BOOLEAN, all_cols \in BOOLEAN,
                 parameter_type \in RmsTypeArgs :
                 GetRmsError(all_rows, all_cols, parameter_type))
       => result'.status \notin {"returned", "running"}]_vars

\* C8: with a model field unset, get_model_response issues a RuntimeWarning
\* and returns a zero vector, and get_rms_error with a network and one of the
\* selectors s, z, y returns a value under the same warning; the model is
\* left as it is.
C8_UnsetModelEvaluatesToZeros ==
    [][/\ \A freqs_given \in BOOLEAN :
             (ModelUnset /\ GetModelResponse(freqs_given))
             => /\ result'.status = "returned"
                /\ result'.value = <<"zeros">>
                /\ UnsetWarning \in warns'
                /\ UNCHANGED model
       /\ \A all_rows \in BOOLEAN, all_cols \in BOOLEAN, parameter_type \in RmsTypeArgs :
             (/\ ModelUnset
              /\ network # None
              /\ Lower(parameter_type) \in {"s", "z", "y"}
              /\ GetRmsError(all_rows, all_cols, parameter_type))
             => /\ result'.status = "returned"
                /\ UnsetWarning \in warns'
                /\ UNCHANGED model]_vars

\* C8 witness: get_rms_error has returned on an object with an unset field
C8_Witness ==
    /\ result.op = "get_rms_error"
    /\ result.status = "returned"
    /\ ModelUnset
    /\ UnsetWarning \in warns

\* C9: passivity_test and passivity_enforce raise NotImplementedError for
\* every selector other than s, y, r in any letter case, and ValueError for
\* the selector s on a model with a non-zero proportional coefficient; the
\* model fields are unchanged in both cases.
C9_UnsupportedRouteRejected ==
    [][/\ \A parameter_type \in UnsupportedRoutes :
             (\/ PassivityTest(parameter_type)
              \/ \E f_max_given \in BOOLEAN : PassivityEnforce(parameter_type, f_max_given))
             => (result'.status = "NotImplementedError" /\ UNCHANGED model)
       /\ \A parameter_type \in {"s", "S"} :
             (/\ NonzeroProportional
              /\ \/ PassivityTest(parameter_type)
                 \/ \E f_max_given \in BOOLEAN :
                       PassivityEnforce(parameter_type, f_max_given))
             => (result'.status = "ValueError" /\ UNCHANGED model)]_vars

\* C9 witness: passivity_enforce has rejected the selector s on a complete
\* model with a non-zero proportional coefficient
C9_Witness ==
    /\ result.op = "passivity_enforce"
    /\ result.status = "ValueError"
    /\ NonzeroProportional
    /\ ~ModelUnset

InvalidSelectors == {pt \in RmsTypeArgs : Lower(pt) \notin {"s", "z", "y"}}

\* a call of vector_fit with a selector that is none of s, z, y has started
InvalidFitStarted ==
    /\ pc = "idle"
    /\ pc' = "vf_init"
    /\ Lower(frame'.parameter_type) \notin {"s", "z", "y"}

\* C10 as stated: vector_fit and get_rms_error end with an error and leave the
\* model unchanged when the selector is none of s, z, y.
C10_InvalidSelectorAborts ==
    [][/\ InvalidFitStarted
          => (result'.status \notin {"returned", "running"} /\ UNCHANGED model)
       /\ \A parameter_type \in InvalidSelectors :
             \A all_rows \in BOOLEAN, all_cols \in BOOLEAN :
                (/\ pc = "idle"
                 /\ result'.op = "get_rms_error"
                 /\ GetRmsError(all_rows, all_cols, parameter_type))
                => (result'.status \notin {"returned", "running"} /\ UNCHANGED model)]_vars

\* C10: with a network attached and a selector that is none of s, z, y,
\* vector_fit issues a UserWarning and goes on with the scattering responses,
\* and get_rms_error raises ValueError and leaves the model unchanged.
C10_InvalidSelectorWarnsOrRaises ==
    [][/\ InvalidFitStarted
          => /\ result'.status = "running"
             /\ frame'.nw_responses = "s"
             /\ FitTypeWarnings(frame'.parameter_type) # {}
             /\ \A w \in FitTypeWarnings(frame'.parameter_type) :
                   w \in warns' /\ w.category = "UserWarning"
             /\ UNCHANGED model
       /\ \A parameter_type \in InvalidSelectors :
             \A all_rows \in BOOLEAN, all_cols \in BOOLEAN :
                (/\ network # None
                 /\ pc = "idle"
                 /\ result'.op = "get_rms_error"
                 /\ GetRmsError(all_rows, all_cols, parameter_type))
                => (result'.status = "ValueError" /\ UNCHANGED model)]_vars

\* C10 witness: vector_fit goes on with the scattering responses after the
\* warning about the selector
C10_Witness ==
    /\ pc = "vf_init"
    /\ Lower(frame.parameter_type) \notin {"s", "z", "y"}
    /\ frame.nw_responses = "s"
    /\ FitTypeWarnings(frame.parameter_type) \subseteq warns

----------------------------------------------------------------------------
(* Properties of read_npz *)

\* the three lengths of a file are N * N with N = floor(sqrt(len(constants)))
IsSquareFile(file) ==
    \E n \in 0..NpLen(file.constants) :
        /\ n * n <= NpLen(file.constants)
        /\ (n + 1) * (n + 1) > NpLen(file.constants)
        /\ Len(file.residues) = n * n
        /\ NpLen(file.proportionals) = n * n
        /\ NpLen(file.constants) = n * n

\* C11: read_npz replaces all four model fields by the arrays of the file if
\* the number of residue rows and the lengths of the proportional terms and
\* of the constants are all N * N, and otherwise raises ValueError and leaves
\* all four model fields as they were.
C11_ReadNpzAllOrNothing ==
    [][\A file \in NpzFiles :
          (pc = "idle" /\ result'.op = "read_npz" /\ ReadNpz(file, behaviour'))
          => IF IsSquareFile(file)
             THEN /\ result'.status = "returned"
                  /\ poles' = Some(file.poles)
                  /\ residues' = Some(file.residues)
                  /\ proportional_coeff' = Some(file.proportionals)
                  /\ constant_coeff' = Some(file.constants)
             ELSE /\ result'.status = "ValueError"
                  /\ UNCHANGED model]_vars

\* C11 witness: read_npz has raised ValueError on an object that holds a model
C11_Witness ==
    /\ result.op = "read_npz"
    /\ result.status = "ValueError"
    /\ ~ModelUnset

----------------------------------------------------------------------------
(* Properties of the stored model *)

\* C12: whenever all four model fields are set, the number of residue rows,
\* the length of constant_coeff and the length of proportional_coeff are all
\* N * N for one N.
C12_ModelShapesSquare ==
    ~ModelUnset =>
        \E N \in 0..NpLen(Get(constant_coeff)) :
            /\ Len(Get(residues)) = N * N
            /\ NpLen(Get(constant_coeff)) = N * N
            /\ NpLen(Get(proportional_coeff)) = N * N

\* C12 witness: the admittance or reflection route of passivity_enforce has
\* returned after it replaced constant_coeff by the matrix D1
C12_Witness ==
    /\ result.op = "passivity_enforce"
    /\ result.status = "returned"
    /\ ~ModelUnset
    /\ Len(Get(constant_coeff).shape) = 2

----------------------------------------------------------------------------
(* Properties of passivity_test and is_passive *)

\* a step of passivity_test or is_passive: only these set the name of the call
TestStep == pc = "idle" /\ result'.op \in {"passivity_test", "is_passive"}

BandsReturned(route) ==
    /\ result.op = "passivity_test"
    /\ result.status = "returned"
    /\ Lower(result.parameter_type) = route

\* C14: the bands that passivity_test returns for the scattering route are in
\* ascending order and do not overlap: no band ends before it starts, no band
\* ends after the start of the next one, and only the last band is unbounded.
C14_ScatteringBandsAscending ==
    BandsReturned("s")
    => \A k \in 1..Len(result.value) :
          /\ result.value[k].f_start <= result.value[k].f_stop
          /\ k < Len(result.value)
             => /\ result.value[k].f_stop <= result.value[k + 1].f_start
                /\ result.value[k].f_stop # Unbounded

\* C14 witness: the scattering route has returned two bands, the last one
\* unbounded
C14_Witness ==
    /\ BandsReturned("s")
    /\ Len(result.value) >= 2
    /\ result.value[Len(result.value)].f_stop = Unbounded

\* C15: in the scattering route every band between two boundary frequencies,
\* and the last, unbounded band, is classified at a frequency that lies
\* strictly between f_start and f_stop of the band.
C15_CentreStrictlyInsideBand ==
    BandsReturned("s")
    => LET fv == FreqsViolation(behaviour.crossover)
       IN  \A i \in 1..Len(fv) :
              FStart(fv, i) < FCenter(fv, i) /\ FCenter(fv, i) < FStop(fv, i)

\* C16: no two consecutive bands that the admittance route returns touch or
\* overlap: violating intervals that are adjacent have been merged.
C16_AdmittanceBandsMerged ==
    BandsReturned("y")
    => \A k \in 1..(Len(result.value) - 1) :
          result.value[k].f_stop < result.value[k + 1].f_start

\* the maximal runs of consecutive violating samples, by their first sample
RunStarts(samples) == {x \in samples : x - 1 \notin samples}

\* C17: the reflection route returns exactly one band for every maximal run of
\* consecutive violating samples of the sweep, in ascending order and without
\* overlap.
C17_ReflectionBandsPerRun ==
    BandsReturned("r")
    => /\ Len(result.value) =
             Cardinality(RunStarts({behaviour.non_passive[i] : i \in DOMAIN behaviour.non_passive}))
       /\ \A k \in 1..Len(result.value) :
             /\ result.value[k].f_start <= result.value[k].f_stop
             /\ k < Len(result.value)
                => result.value[k].f_stop <= result.value[k + 1].f_start

----------------------------------------------------------------------------
(* Properties of passivity_enforce *)

\* is_passive(t) returns True in the current state
IsPassiveNow(t) ==
    /\ PassivityTestError(t) = "none"
    /\ IsPassiveValue(t, TestBands(t, behaviour))

\* C18: when is_passive(parameter_type) is true, passivity_enforce with that
\* selector returns at once, leaves poles, residues, constant_coeff and
\* proportional_coeff as they are and issues no warning.
C18_PassiveModelLeftAlone ==
    [][\A t \in EnforceTypeArgs :
          (/\ pc = "idle"
           /\ result'.op = "passivity_enforce"
           /\ IsPassiveNow(t)
           /\ \E f_max_given \in BOOLEAN : PassivityEnforce(t, f_max_given))
          => /\ pc' = "idle"
             /\ result'.status = "returned"
             /\ UNCHANGED <<poles, residues, proportional_coeff, constant_coeff>>
             /\ warns' = {}]_vars

\* the scattering-route loop is left and the call ends
EnforceEnds == pc = "pe_loop" /\ pc' = "idle"

RuntimeWarned(ws) == \E w \in ws : w.category = "RuntimeWarning"

C20_BreakImpliesPassive ==
    [][(EnforceEnds /\ frame.broke) => Len(BandTable.s[behaviour']) = 0]_vars

----------------------------------------------------------------------------
(* The loops of passivity_enforce_y_or_r *)

\* a step that runs the body of the outer loop: the loop condition holds and
\* 'if break_outer: break' does not leave it
OuterBodyStep ==
    /\ pc = "yr_loop"
    /\ frame.iter_in = 0
    /\ OuterGuard(frame.iter_out)
    /\ ~frame.break_outer

\* C21: in one call of passivity_enforce_y_or_r the body of the outer loop runs
\* at most 60 times (a body that runs has fewer than 60 bodies before it), and
\* an outer pass runs at most 2 inner passes.
C21_OuterLoopWithinSixty ==
    [][/\ OuterBodyStep => frame.iter_out + 1 <= 60
       /\ pc' = "yr_loop" => frame'.iter_in < 2]_vars

\* the call ends because the condition of the outer loop fails, break_outer
\* never having been set
OuterBudgetUsedUp ==
    /\ pc = "yr_loop"
    /\ pc' = "idle"
    /\ frame.iter_in = 0
    /\ ~frame.break_outer
    /\ ~OuterGuard(frame.iter_out)

\* C22: when passivity_enforce_y_or_r uses up its outer-loop budget without
\* reaching its convergence condition, it returns normally, keeps the
\* perturbed model and issues a warning.
C22_UsedUpBudgetWarns ==
    [][OuterBudgetUsedUp =>
          /\ result'.status = "returned"
          /\ model' = model
          /\ warns' # {}]_vars

\* the first call of FRPY / FRPR of an outer iteration that follows another one
NextOuterSolve ==
    /\ OuterBodyStep
    /\ frame.iter_out > 0
    /\ pc' = "yr_loop"
    /\ frame'.iter_in = 1

\* C23: the constraint points accumulated in s3 during an outer iteration
\* that did not converge are part of the constraint set (s2 and s3) passed to
\* the quadratic program in the next outer iteration.
C23_AccumulatedPointsCarried ==
    [][NextOuterSolve =>
          \A k \in DOMAIN frame.accumulated :
              \E m \in DOMAIN frame'.constraints :
                  frame'.constraints[m] = frame.accumulated[k]]_vars

----------------------------------------------------------------------------
(* passivity_enforce, scattering route: errors and frame *)

\* passivity_enforce(parameter_type=..., f_max=None) is called for the
\* scattering route on a non-passive model of an object without network
EnforceWithoutBand ==
    /\ pc = "idle"
    /\ network = None
    /\ result'.op = "passivity_enforce"
    /\ \E parameter_type \in {"s", "S"} :
          /\ PassivityTestError(parameter_type) = "none"
          /\ ~IsPassiveValue("s", BandTable.s[behaviour])
          /\ PassivityEnforce(parameter_type, FALSE)

\* C24: scattering-route passivity_enforce, called on a non-passive model with
\* f_max = None while self.network is None, raises a ValueError.
C24_NoBandRaisesValueError ==
    [][EnforceWithoutBand => result'.status = "ValueError"]_vars

----------------------------------------------------------------------------
(* The budget warnings *)

\* C28: vector_fit issues a max-iterations RuntimeWarning only if the
\* relocation loop did not stop by double convergence; a run whose
\* double-convergence stop happens in iteration number max_iterations issues
\* no such warning.
C28_NoBudgetWarningAfterStop ==
    (LoopEnded /\ frame.stop) => ~BudgetWarningIssued

\* C29: scattering-route passivity_enforce issues the warning 'Aborting after
\* the max. number of iterations has been exceeded' only if its loop did not
\* exit through the test sigma_max < 1; a run that reaches sigma_max < 1 in
\* iteration number max_iterations issues no such warning.
C29_NoAbortWarningAfterBreak ==
    [][(EnforceEnds /\ frame.broke) => EnforceBudgetWarning \notin warns']_vars

----------------------------------------------------------------------------
(* is_passive and the convergence test of passivity_enforce_y_or_r *)

\* C25: is_passive treats parameter_type case-insensitively: on every model
\* is_passive('Y') returns what is_passive('y') returns and is_passive('R')
\* what is_passive('r') returns, the check of the constant term D after an
\* empty band list included.
C25_IsPassiveIgnoresCase ==
    (/\ result.op = "is_passive"
     /\ result.status = "returned"
     /\ result.parameter_type \in {"Y", "R"}) =>
        LET lowered == Lower(result.parameter_type)
        IN  result.value = <<IsPassiveValue(lowered, TestBands(lowered, behaviour))>>

\* passivity_enforce_y_or_r ends after its convergence test has set break_outer
StoppedByConvergence ==
    /\ pc = "yr_loop"
    /\ pc' = "idle"
    /\ frame.break_outer
    /\ result'.status = "returned"

\* C30: whenever passivity_enforce_y_or_r stops through its own convergence
\* test (no violation bands and D feasible), is_passive with the same
\* parameter type returns True on the resulting model.
C30_ConvergedModelIsPassive ==
    [][StoppedByConvergence =>
          IsPassiveValue(frame.parameter_type,
                         TestBands(frame.parameter_type, behaviour'))]_vars

----------------------------------------------------------------------------
(* The frame of the scattering-route passivity_enforce *)

\* a step of a passivity_enforce call on the scattering route: the entry, a
\* pass of the loop, or the statements after the loop
ScatteringEnforceStep ==
    \/ pc = "pe_loop"
    \/ pc = "idle" /\ result'.op = "passivity_enforce" /\ pc' # "yr_loop"

\* all constants are zero
ConstantsZero ==
    /\ constant_coeff # None
    /\ \A i \in DOMAIN Get(constant_coeff).data : Get(constant_coeff).data[i] = 0

\* C26: scattering-route passivity_enforce changes only residues and
\* constants: no step of a call changes poles or proportional_coeff, and
\* constant_coeff is not changed when all constants are zero at entry (they
\* stay zero until the write-back, which then skips them).
C26_EnforceWritesResiduesAndConstantsOnly ==
    [][ScatteringEnforceStep =>
          /\ poles' = poles
          /\ proportional_coeff' = proportional_coeff
          /\ ConstantsZero => constant_coeff' = constant_coeff]_vars

\* C26 witness: a call on a model without constants has perturbed the
\* residues and has returned
C26_Witness ==
    /\ pc = "idle"
    /\ result.op = "passivity_enforce"
    /\ result.status = "returned"
    /\ Len(history_max_sigma) > 0
    /\ ConstantsZero
    /\ \A file \in NpzFiles : residues # Some(file.residues)

----------------------------------------------------------------------------
(* The layout of C *)

\* C27: in the full realization of _get_ABCDE the residue of every response
\* (i, j) and every pole k is written to row i of C at the columns of pole k's
\* block inside port j's copy of A (one column for a real pole, two for a
\* conjugate pair), also when the imaginary part of a conjugate-pair residue
\* is exactly 0; and the write-back of passivity_enforce reads the same
\* columns, so that writing back an unperturbed C leaves the residues as they
\* are.
C27_ResiduesAtPoleColumns ==
    [][/\ result'.op = "_get_ABCDE" =>
             \A r \in DOMAIN Get(residues), z \in DOMAIN Get(poles) :
                 LET i == ((r - 1) \div NPorts) + 1
                     j == ((r - 1) % NPorts) + 1
                     k == (j - 1) * StatesPerPort(Get(poles)) + PoleOffset(Get(poles), z)
                     C == result'.value
                 IN  /\ C[i][k + 1] = Get(residues)[r][z].re
                     /\ IsCmplxPole(Get(poles)[z]) => C[i][k + 2] = Get(residues)[r][z].im
       /\ result'.op = "write_back" => residues' = residues]_vars


====
